---- MODULE Spec2Model ----
(***************************************************************************)
(* Model of src/app.py: the price-discovery engine of the Homely hidden    *)
(* price finder.                                                           *)
(*                                                                         *)
(*   check_property_in_price_range  the paginated oracle call              *)
(*   refine_to_10k_window           continuous binary search + band snap   *)
(*   binary_search_price_range      existence check, lower/upper ladder    *)
(*                                  searches, optional refinement          *)
(*                                                                         *)
(* Four specifications share the variables:                                *)
(*   Spec        one call of binary_search_price_range, one step per       *)
(*               oracle call, the oracle being a boolean test double       *)
(*   SpecRefine  one call of refine_to_10k_window on an arbitrary bracket  *)
(*   SpecCheck   one call of check_property_in_price_range, one step per   *)
(*               page request, the transport outcome chosen per page       *)
(*   SpecBatch   the batch loop of main over the rows of the uploaded CSV, *)
(*               each row one run of binary_search_price_range             *)
(***************************************************************************)
EXTENDS Integers, Sequences, FiniteSets, TLC

VARIABLES
    pc,                 \* position of the running function
    price_points,       \* binary_search_price_range: the ladder argument
    find_exact,         \* binary_search_price_range: the find_exact argument
    oracle_mode,        \* test double: "listings" or "any"
    prices,             \* test double: sold prices of the listings matching the address
    lo, hi,             \* binary_search_price_range: loop bounds (0-based indices)
    lower_bound_index,
    upper_bound_index,
    queries_made,       \* binary_search_price_range: its own counter
    result,             \* binary_search_price_range: the returned dict
    r_min_price,        \* refine_to_10k_window: min_price argument
    r_max_price,        \* refine_to_10k_window: max_price argument
    r_lo, r_hi,         \* refine_to_10k_window: loop bounds (prices)
    r_queries_made,     \* refine_to_10k_window: its own counter
    refine_result,      \* refine_to_10k_window: the returned dict
    calls,              \* log of the oracle calls issued: <<kind, min, max, answer>>
    target_address,     \* check_property_in_price_range: target_address argument
    max_results,        \* check_property_in_price_range: max_results argument
    page,               \* check_property_in_price_range: loop variable
    requests,           \* log of the skip offsets posted
    fetched,            \* log of the per-page outcomes received
    c_result,           \* check_property_in_price_range: returned value
    b_address,          \* binary_search_price_range: the target_address argument
    rows,               \* main: the rows of the data frame, [address, prices]
    row_idx,            \* main: the loop index idx
    results,            \* main: the results list
    invocations,        \* log of the addresses binary_search_price_range was called with
    summary             \* main: found_count, total_queries, avg_queries

vars == <<pc, price_points, find_exact, oracle_mode, prices, lo, hi,
          lower_bound_index, upper_bound_index, queries_made, result,
          r_min_price, r_max_price, r_lo, r_hi, r_queries_made, refine_result,
          calls, target_address, max_results, page, requests, fetched, c_result,
          b_address, rows, row_idx, results, invocations, summary>>

searchVars == <<price_points, find_exact, lo, hi, lower_bound_index,
                upper_bound_index, queries_made, result>>
refineVars == <<r_min_price, r_max_price, r_lo, r_hi, r_queries_made, refine_result>>
checkVars  == <<target_address, max_results, page, requests, fetched, c_result>>
batchVars  == <<b_address, rows, row_idx, results, invocations, summary>>

(***************************************************************************)
(* Program constants                                                       *)
(***************************************************************************)
PRICE_POINTS ==
    << 200000, 250000, 300000, 350000, 400000, 450000, 500000, 550000, 600000, 700000,
       750000, 800000, 850000, 900000, 950000, 1000000, 1100000, 1200000, 1300000, 1400000,
       1500000, 1600000, 1700000, 1800000, 1900000, 2000000, 2250000, 2500000, 2750000, 3000000,
       3500000, 4000000, 4500000, 5000000, 6000000, 7000000, 8000000, 9000000, 10000000 >>

\* the 10000 of `while hi - lo > 10000`, of the band snap and of the refinement test
WINDOW == 10000

results_per_page == 25

None == "None"

(***************************************************************************)
(* Bounds of the model                                                     *)
(***************************************************************************)
\* ladders checked: the prefixes of PRICE_POINTS of length 2..MaxShortLadder, and PRICE_POINTS
MaxShortLadder == 5

\* SpecRefine: starting brackets have width k*WINDOW + d, k in 1..MaxWidthUnits,
\* d in 0..MaxWidthOffset, and the hidden price lies on a grid of step PriceGrid
MaxWidthUnits == 10
MaxWidthOffset == 2
PriceGrid == 1000

\* SpecCheck: max_results asks for at most MaxPages pages
MaxPages == 3

\* SpecBatch: the uploaded CSV has at most MaxRows rows
MaxRows == 2

(***************************************************************************)
(* Helpers                                                                 *)
(***************************************************************************)
\* price_points[i] with Python's 0-based index
At(pp, i) == pp[i + 1]

\* price_points[0] and price_points[-1]
min_possible(pp) == pp[1]
max_possible(pp) == pp[Len(pp)]

LadderValues(pp) == {pp[i] : i \in 1..Len(pp)}

\* `mid = (lo + hi) // 2` of the two ladder searches
LadderMidLow(l, h) == l
LadderMid(l, h) == (l + h) \div 2

\* `mid = (lo + hi) // 2` of the refinement loop
RefineMid(l, h) == (l + h) \div 2

(***************************************************************************)
(* The oracle test double.  In mode "listings" the oracle answers true iff *)
(* one of the listings matching the address sold at a price in [min,max]   *)
(* (one listing: the hidden-price oracle; none: always false).  In mode    *)
(* "any" each answer is arbitrary.                                         *)
(***************************************************************************)
InRange(mn, mx) == \E p \in prices : mn <= p /\ p <= mx

Answers(mn, mx) == IF oracle_mode = "any" THEN BOOLEAN ELSE {InRange(mn, mx)}

Ladders == {SubSeq(PRICE_POINTS, 1, n) : n \in 2..MaxShortLadder} \cup {PRICE_POINTS}

\* candidate sold prices for a ladder: each ladder value, each midpoint of two
\* neighbours, one price below the ladder and one above it
Candidates(pp) ==
    LadderValues(pp)
    \cup {(pp[i] + pp[i + 1]) \div 2 : i \in 1..(Len(pp) - 1)}
    \cup {pp[1] - 50000, pp[Len(pp)] + 50000}

\* no matching listing, one, or two (the address match is a substring test)
PriceSets(pp) == {{}} \cup {{p, q} : p \in Candidates(pp), q \in Candidates(pp)}

(***************************************************************************)
(* binary_search_price_range                                               *)
(***************************************************************************)
NotFoundResult ==
    [found   |-> FALSE,
     message |-> "Property not found in database or filters are incorrect",
     suburb  |-> "suburb_name",
     address |-> b_address]

FoundResult(exact, mn, mx, width, q) ==
    [found |-> TRUE, exact |-> exact, price |-> None,
     min_price |-> mn, max_price |-> mx, bracket_width |-> width,
     queries_made |-> q,
     address |-> b_address, suburb |-> "suburb_name"]

Pending == [pending |-> TRUE]

\* `if find_exact and (final_max - final_min) > 10000`
NeedsRefineNoWidth(fe, final_min, final_max) == fe
NeedsRefine(fe, final_min, final_max) == fe /\ (final_max - final_min) > WINDOW

\* lines 234-250: the existence check and the not-found return; lines 256-258
ExistsCheckNoReturn ==
    /\ pc = "exists"
    /\ \E exists \in Answers(min_possible(price_points), max_possible(price_points)) :
          /\ calls' = Append(calls, <<"exists", min_possible(price_points),
                                      max_possible(price_points), exists>>)
          /\ queries_made' = queries_made + 1
          /\ pc' = "lower"
          /\ lo' = 0
          /\ hi' = Len(price_points) - 1
          /\ lower_bound_index' = 0
          /\ UNCHANGED result
    /\ UNCHANGED <<price_points, find_exact, upper_bound_index, oracle_mode, prices>>
    /\ UNCHANGED refineVars
    /\ UNCHANGED checkVars
    /\ UNCHANGED batchVars

ExistsCheck ==
    /\ pc = "exists"
    /\ \E exists \in Answers(min_possible(price_points), max_possible(price_points)) :
          /\ calls' = Append(calls, <<"exists", min_possible(price_points),
                                      max_possible(price_points), exists>>)
          /\ queries_made' = queries_made + 1
          /\ IF ~exists
             THEN /\ result' = NotFoundResult
                  /\ pc' = "done"
                  /\ UNCHANGED <<lo, hi, lower_bound_index>>
             ELSE /\ pc' = "lower"
                  /\ lo' = 0
                  /\ hi' = Len(price_points) - 1
                  /\ lower_bound_index' = 0
                  /\ UNCHANGED result
    /\ UNCHANGED <<price_points, find_exact, upper_bound_index, oracle_mode, prices>>
    /\ UNCHANGED refineVars
    /\ UNCHANGED checkVars
    /\ UNCHANGED batchVars

\* lines 260-274: one iteration of the lower-bound loop
LowerNextLo(found, l, mid) == IF found THEN mid + 1 ELSE l
LowerNextHi(found, h, mid) == IF found THEN h ELSE mid - 1
LowerNextIndex(found, idx, mid) == IF found THEN mid ELSE idx

LowerStep ==
    /\ pc = "lower"
    /\ lo <= hi
    /\ LET mid == LadderMid(lo, hi)
           threshold == At(price_points, mid)
       IN \E found \in Answers(threshold, max_possible(price_points)) :
            /\ calls' = Append(calls, <<"lower", threshold,
                                        max_possible(price_points), found>>)
            /\ queries_made' = queries_made + 1
            /\ lower_bound_index' = LowerNextIndex(found, lower_bound_index, mid)
            /\ lo' = LowerNextLo(found, lo, mid)
            /\ hi' = LowerNextHi(found, hi, mid)
    /\ UNCHANGED <<pc, price_points, find_exact, upper_bound_index, result,
                   oracle_mode, prices>>
    /\ UNCHANGED refineVars
    /\ UNCHANGED checkVars
    /\ UNCHANGED batchVars

\* lines 260, 276-284: the lower loop ends, the upper search is set up
LowerExit ==
    /\ pc = "lower"
    /\ ~(lo <= hi)
    /\ pc' = "upper"
    /\ lo' = 0
    /\ hi' = Len(price_points) - 1
    /\ upper_bound_index' = Len(price_points) - 1
    /\ UNCHANGED <<price_points, find_exact, lower_bound_index, queries_made, result,
                   oracle_mode, prices, calls>>
    /\ UNCHANGED refineVars
    /\ UNCHANGED checkVars
    /\ UNCHANGED batchVars

\* lines 286-300: one iteration of the upper-bound loop
UpperNextHi(found, h, mid) == IF found THEN mid - 1 ELSE h
UpperNextLo(found, l, mid) == IF found THEN l ELSE mid + 1
UpperNextIndexStale(found, idx, mid) == idx
UpperNextIndex(found, idx, mid) == IF found THEN mid ELSE idx

UpperStep ==
    /\ pc = "upper"
    /\ lo <= hi
    /\ LET mid == LadderMid(lo, hi)
           threshold == At(price_points, mid)
       IN \E found \in Answers(min_possible(price_points), threshold) :
            /\ calls' = Append(calls, <<"upper", min_possible(price_points),
                                        threshold, found>>)
            /\ queries_made' = queries_made + 1
            /\ upper_bound_index' = UpperNextIndex(found, upper_bound_index, mid)
            /\ hi' = UpperNextHi(found, hi, mid)
            /\ lo' = UpperNextLo(found, lo, mid)
    /\ UNCHANGED <<pc, price_points, find_exact, lower_bound_index, result,
                   oracle_mode, prices>>
    /\ UNCHANGED refineVars
    /\ UNCHANGED checkVars
    /\ UNCHANGED batchVars

\* lines 286, 302-314 and 330-340: the upper loop ends; either the coarse result is
\* returned or refine_to_10k_window is entered (lines 184-186)
UpperExit ==
    /\ pc = "upper"
    /\ ~(lo <= hi)
    /\ LET final_min == At(price_points, lower_bound_index)
           final_max == At(price_points, upper_bound_index)
       IN IF NeedsRefine(find_exact, final_min, final_max)
          THEN /\ pc' = "refine"
               /\ r_min_price' = final_min
               /\ r_max_price' = final_max
               /\ r_queries_made' = 0
               /\ r_lo' = final_min
               /\ r_hi' = final_max
               /\ UNCHANGED <<result, refine_result>>
          ELSE /\ pc' = "done"
               /\ result' = FoundResult(FALSE, final_min, final_max,
                                        final_max - final_min, queries_made)
               /\ UNCHANGED refineVars
    /\ UNCHANGED <<price_points, find_exact, lo, hi, lower_bound_index,
                   upper_bound_index, queries_made, oracle_mode, prices, calls>>
    /\ UNCHANGED checkVars
    /\ UNCHANGED batchVars

(***************************************************************************)
(* refine_to_10k_window                                                    *)
(***************************************************************************)
\* `while hi - lo > 10000`
RefineContinuesInclusive(l, h) == h - l >= WINDOW
RefineContinues(l, h) == h - l > WINDOW

\* `lo = mid + 1`
RefineNextLo(found, l, mid) == IF found THEN l ELSE mid + 1
\* `hi = mid`
RefineNextHi(found, h, mid) == IF found THEN mid ELSE h

\* lines 188-203: one iteration of the refinement loop
RefineStep ==
    /\ pc = "refine"
    /\ RefineContinues(r_lo, r_hi)
    /\ LET mid == RefineMid(r_lo, r_hi)
       IN \E found \in Answers(r_lo, mid) :
            /\ calls' = Append(calls, <<"refine", r_lo, mid, found>>)
            /\ r_queries_made' = r_queries_made + 1
            /\ r_hi' = RefineNextHi(found, r_hi, mid)
            /\ r_lo' = RefineNextLo(found, r_lo, mid)
    /\ UNCHANGED <<pc, r_min_price, r_max_price, refine_result, oracle_mode, prices>>
    /\ UNCHANGED searchVars
    /\ UNCHANGED checkVars
    /\ UNCHANGED batchVars

\* `low_band = (centre // 10000) * 10000`
LowBandUnsnapped(centre) == centre - (WINDOW \div 2)
LowBand(centre) == (centre \div WINDOW) * WINDOW

\* lines 205-214: the band snap and the return
RefineResult(l, h, q) ==
    LET centre    == (l + h) \div 2
        low_band  == LowBand(centre)
        high_band == low_band + WINDOW
    IN [min_price |-> low_band, max_price |-> high_band,
        bracket_width |-> high_band - low_band, queries_made |-> q]

RefineReturn ==
    /\ pc = "refine"
    /\ ~RefineContinues(r_lo, r_hi)
    /\ refine_result' = RefineResult(r_lo, r_hi, r_queries_made)
    /\ pc' = "refine_ret"
    /\ UNCHANGED <<r_min_price, r_max_price, r_lo, r_hi, r_queries_made,
                   oracle_mode, prices, calls>>
    /\ UNCHANGED searchVars
    /\ UNCHANGED checkVars
    /\ UNCHANGED batchVars

\* lines 316-328: binary_search_price_range returns the refined result
ExactReturn ==
    /\ pc = "refine_ret"
    /\ LET total_queries == queries_made + refine_result.queries_made
       IN result' = FoundResult(TRUE, refine_result.min_price, refine_result.max_price,
                                refine_result.bracket_width, total_queries)
    /\ pc' = "done"
    /\ UNCHANGED <<price_points, find_exact, lo, hi, lower_bound_index,
                   upper_bound_index, queries_made, oracle_mode, prices, calls>>
    /\ UNCHANGED refineVars
    /\ UNCHANGED checkVars
    /\ UNCHANGED batchVars

(***************************************************************************)
(* Spec: one call of binary_search_price_range                             *)
(***************************************************************************)
NoCheck ==
    /\ target_address = << >>
    /\ max_results = 0
    /\ page = 0
    /\ requests = << >>
    /\ fetched = << >>
    /\ c_result = None

NoBatch ==
    /\ b_address = "target_address"
    /\ rows = << >>
    /\ row_idx = 0
    /\ results = << >>
    /\ invocations = << >>
    /\ summary = Pending

NoRefine ==
    /\ r_min_price = 0
    /\ r_max_price = 0
    /\ r_lo = 0
    /\ r_hi = 0
    /\ r_queries_made = 0
    /\ refine_result = Pending

Init ==
    /\ pc = "exists"
    /\ price_points \in Ladders
    /\ find_exact \in BOOLEAN
    /\ oracle_mode \in {"listings", "any"}
    /\ IF oracle_mode = "any"
       THEN Len(price_points) <= MaxShortLadder /\ prices = {}
       ELSE prices \in PriceSets(price_points)
    /\ lo = 0
    /\ hi = 0
    /\ lower_bound_index = 0
    /\ upper_bound_index = 0
    /\ queries_made = 0
    /\ result = Pending
    /\ calls = << >>
    /\ NoRefine
    /\ NoCheck
    /\ NoBatch

Next ==
    \/ ExistsCheck
    \/ LowerStep
    \/ LowerExit
    \/ UpperStep
    \/ UpperExit
    \/ RefineStep
    \/ RefineReturn
    \/ ExactReturn

Spec == Init /\ [][Next]_vars

(***************************************************************************)
(* Properties of binary_search_price_range (checked under Spec)            *)
(***************************************************************************)
RECURSIVE CeilLog2Ratio(_, _)
\* the least k with d * 2^k >= w, i.e. ceil(log2(w / d)) for w >= d
CeilLog2Ratio(w, d) == IF w <= d THEN 0 ELSE 1 + CeilLog2Ratio(w, 2 * d)

CeilLog2(n) == CeilLog2Ratio(n, 1)

Abs(x) == IF x < 0 THEN 0 - x ELSE x

\* the test double is the hidden-price oracle: exactly one matching listing
HiddenPrice == oracle_mode = "listings" /\ Cardinality(prices) = 1
ThePrice == CHOOSE p \in prices : TRUE
InSpan == min_possible(price_points) <= ThePrice /\ ThePrice <= max_possible(price_points)

LargestAtMost(pp, p) ==
    CHOOSE v \in LadderValues(pp) : v <= p /\ \A w \in LadderValues(pp) : w <= p => w <= v
SmallestAtLeast(pp, p) ==
    CHOOSE v \in LadderValues(pp) : v >= p /\ \A w \in LadderValues(pp) : w >= p => w >= v

Returned == pc = "done"

\* C1: with the hidden-price oracle and a price p inside the ladder span, the call
\* without refinement returns found = true, min_price = the largest ladder value <= p
\* and max_price = the smallest ladder value >= p (so min_price <= p <= max_price);
\* on the 39-point ladder with p = 1,150,000 the bracket is [1,100,000, 1,200,000].
C1_Bracket ==
    (Returned /\ HiddenPrice /\ InSpan /\ ~find_exact) =>
        /\ result.found = TRUE
        /\ result.min_price = LargestAtMost(price_points, ThePrice)
        /\ result.max_price = SmallestAtLeast(price_points, ThePrice)
        /\ result.min_price <= ThePrice /\ ThePrice <= result.max_price
        /\ result.min_price \in LadderValues(price_points)
        /\ result.max_price \in LadderValues(price_points)
        /\ (price_points = PRICE_POINTS /\ ThePrice = 1150000) =>
              (result.min_price = 1100000 /\ result.max_price = 1200000)

C1_Witness ==
    /\ Returned /\ HiddenPrice /\ ~find_exact
    /\ price_points = PRICE_POINTS /\ ThePrice = 1150000
    /\ result.found = TRUE
    /\ result.min_price = 1100000 /\ result.max_price = 1200000

\* C2 as stated: with the hidden-price oracle and p inside the span, queries_made of
\* the call without refinement is within 1 of 1 + 2*ceil(log2(N)), and is 13 on the
\* 39-point ladder with p = 1,150,000.
C2_Original ==
    (Returned /\ HiddenPrice /\ InSpan /\ ~find_exact) =>
        /\ Abs(result.queries_made - (1 + 2 * CeilLog2(Len(price_points)))) <= 1
        /\ (price_points = PRICE_POINTS /\ ThePrice = 1150000) => result.queries_made = 13

\* C2 amended: with the hidden-price oracle and p inside the span, queries_made of the
\* call without refinement is within 2 of 1 + 2*ceil(log2(N)), it is the number of
\* oracle calls issued, and it is 11 on the 39-point ladder with p = 1,150,000.
C2_Count ==
    (Returned /\ HiddenPrice /\ InSpan /\ ~find_exact) =>
        /\ Abs(result.queries_made - (1 + 2 * CeilLog2(Len(price_points)))) <= 2
        /\ result.queries_made = Len(calls)
        /\ (price_points = PRICE_POINTS /\ ThePrice = 1150000) => result.queries_made = 11

C2_Witness ==
    /\ Returned /\ HiddenPrice /\ ~find_exact
    /\ price_points = PRICE_POINTS /\ ThePrice = 1150000
    /\ result.queries_made = 11
    /\ Len(calls) = 11

\* the oracle confirms existence over the full ladder span
ConfirmsExistence == InRange(min_possible(price_points), max_possible(price_points))

\* oracle(T, ladder.last) true implies oracle(T', ladder.last) true for every ladder
\* threshold T' <= T
MonotoneLower ==
    \A T \in LadderValues(price_points), U \in LadderValues(price_points) :
        (U <= T /\ InRange(T, max_possible(price_points)))
            => InRange(U, max_possible(price_points))

\* C5: for an oracle that confirms existence and is monotonic in the stated sense, the
\* coarse bracket returned has min_price <= max_price and both values on the ladder.
C5_BracketOrdered ==
    (Returned /\ oracle_mode = "listings" /\ ConfirmsExistence /\ MonotoneLower
       /\ result.found = TRUE /\ result.exact = FALSE) =>
        /\ result.min_price <= result.max_price
        /\ result.min_price \in LadderValues(price_points)
        /\ result.max_price \in LadderValues(price_points)

\* the calls of the log made by binary_search_price_range itself, and by the refiner
CoarseCalls == Len(SelectSeq(calls, LAMBDA c : c[1] # "refine"))
RefineCalls == Len(SelectSeq(calls, LAMBDA c : c[1] = "refine"))

\* refine_to_10k_window was run (it has returned its dict)
RanRefine == refine_result # Pending

\* C8: refine_to_10k_window is run iff the property was found, find_exact is true and
\* the coarse bracket is wider than 10000; then the result has exact = true, the refined
\* min/max and queries_made = coarse calls + refinement calls; in every other found case
\* it has exact = false, the coarse ladder bracket and queries_made = coarse calls only.
C8_RefineIff ==
    Returned =>
        LET final_min == At(price_points, lower_bound_index)
            final_max == At(price_points, upper_bound_index)
        IN /\ RanRefine <=> (result.found /\ find_exact /\ final_max - final_min > WINDOW)
           /\ (RefineCalls > 0) => RanRefine
           /\ RanRefine =>
                /\ result.exact = TRUE
                /\ result.min_price = refine_result.min_price
                /\ result.max_price = refine_result.max_price
                /\ refine_result.queries_made = RefineCalls
                /\ result.queries_made = CoarseCalls + RefineCalls
           /\ (result.found /\ ~RanRefine) =>
                /\ result.exact = FALSE
                /\ result.min_price = final_min
                /\ result.max_price = final_max
                /\ result.queries_made = CoarseCalls
                /\ RefineCalls = 0

C8_Witness ==
    /\ Returned /\ result.found = TRUE /\ find_exact
    /\ RanRefine /\ RefineCalls > 0
    /\ result.exact = TRUE
    /\ result.queries_made = CoarseCalls + RefineCalls

\* C10: when the existence check is answered false, the call returns found = false with
\* the diagnostic message after exactly one oracle call, whatever find_exact is.
C10_NotFoundOneCall ==
    (Len(calls) >= 1 /\ calls[1][4] = FALSE) =>
        /\ Len(calls) = 1
        /\ calls[1] = <<"exists", min_possible(price_points),
                        max_possible(price_points), FALSE>>
        /\ Returned
        /\ result = NotFoundResult
        /\ ~RanRefine

C10_Witness ==
    /\ Returned /\ find_exact
    /\ Len(calls) = 1 /\ calls[1][4] = FALSE
    /\ result = NotFoundResult

(***************************************************************************)
(* SpecRefine: one call of refine_to_10k_window(min_price, max_price) on a *)
(* bracket wider than 10000, with the hidden-price oracle (the price       *)
(* inside the bracket) or with arbitrary answers                           *)
(***************************************************************************)
RefineLows == {200000, 995000, 1100000}

RefineWidths ==
    {w \in {k * WINDOW + d : k \in 1..MaxWidthUnits, d \in 0..MaxWidthOffset} : w > WINDOW}

\* hidden prices inside [mn, mx]: the grid points, both ends and their neighbours
PricesIn(mn, mx) ==
    {q \in {mn + j * PriceGrid : j \in 0..((mx - mn) \div PriceGrid)} : q <= mx}
    \cup {mn, mn + 1, mx - 1, mx}

InitRefine ==
    /\ pc = "refine"
    /\ r_min_price \in RefineLows
    /\ \E w \in RefineWidths : r_max_price = r_min_price + w
    /\ oracle_mode \in {"listings", "any"}
    /\ IF oracle_mode = "any"
       THEN prices = {}
       ELSE \E q \in PricesIn(r_min_price, r_max_price) : prices = {q}
    /\ r_queries_made = 0
    /\ r_lo = r_min_price
    /\ r_hi = r_max_price
    /\ refine_result = Pending
    /\ calls = << >>
    /\ price_points = PRICE_POINTS
    /\ find_exact = TRUE
    /\ lo = 0
    /\ hi = 0
    /\ lower_bound_index = 0
    /\ upper_bound_index = 0
    /\ queries_made = 0
    /\ result = Pending
    /\ NoCheck
    /\ NoBatch

NextRefine ==
    \/ RefineStep
    \/ RefineReturn

SpecRefine == InitRefine /\ [][NextRefine]_vars

(***************************************************************************)
(* Properties of refine_to_10k_window (checked under SpecRefine)           *)
(***************************************************************************)
RefineReturned == pc = "refine_ret"

StartWidth == r_max_price - r_min_price

\* C3: with the hidden-price oracle and lo0 <= p <= hi0, hi0 - lo0 > 10000, the band
\* returned is [b, b + 10000] with b <= p < b + 10000, i.e. b = floor(p/10000)*10000.
C3_BandContainsPrice ==
    (RefineReturned /\ HiddenPrice /\ StartWidth > WINDOW
       /\ r_min_price <= ThePrice /\ ThePrice <= r_max_price) =>
        /\ refine_result.max_price = refine_result.min_price + WINDOW
        /\ refine_result.min_price <= ThePrice
        /\ ThePrice < refine_result.min_price + WINDOW
        /\ refine_result.min_price = (ThePrice \div WINDOW) * WINDOW

\* C4 as stated: with the hidden-price oracle and p inside the bracket, the refiner
\* makes exactly ceil(log2((hi0 - lo0)/10000)) oracle calls, wherever p lies.
C4_Original ==
    (RefineReturned /\ HiddenPrice /\ StartWidth > WINDOW
       /\ r_min_price <= ThePrice /\ ThePrice <= r_max_price) =>
        refine_result.queries_made = CeilLog2Ratio(StartWidth, WINDOW)

\* C4 amended: with the hidden-price oracle and p inside the bracket, the refiner makes
\* ceil(log2((hi0 - lo0)/10000)) oracle calls or one fewer, one per loop iteration.
C4_Calls ==
    (RefineReturned /\ HiddenPrice /\ StartWidth > WINDOW
       /\ r_min_price <= ThePrice /\ ThePrice <= r_max_price) =>
        /\ refine_result.queries_made <= CeilLog2Ratio(StartWidth, WINDOW)
        /\ refine_result.queries_made >= CeilLog2Ratio(StartWidth, WINDOW) - 1
        /\ refine_result.queries_made = RefineCalls

\* a bracket on which the count differs from the formula
C4_Witness ==
    /\ RefineReturned /\ HiddenPrice
    /\ r_min_price <= ThePrice /\ ThePrice <= r_max_price
    /\ StartWidth = 2 * WINDOW + 1
    /\ refine_result.queries_made = 1
    /\ RefineCalls = 1
    /\ CeilLog2Ratio(StartWidth, WINDOW) = 2

\* C9: for every bracket wider than 10000 and every sequence of oracle answers, the
\* refiner terminates (it never runs more than ceil(log2(width/10000)) iterations and is
\* never stuck before returning) and returns a band whose min_price is a multiple of
\* 10000, whose max_price is min_price + 10000 and whose bracket_width is 10000.
C9_BandShape ==
    /\ (pc = "refine") =>
          /\ r_queries_made <= CeilLog2Ratio(StartWidth, WINDOW)
          /\ r_queries_made = RefineCalls
          /\ ENABLED NextRefine
    /\ RefineReturned =>
          /\ refine_result.min_price % WINDOW = 0
          /\ refine_result.max_price = refine_result.min_price + WINDOW
          /\ refine_result.bracket_width = WINDOW
          /\ refine_result.queries_made <= CeilLog2Ratio(StartWidth, WINDOW)

\* answers no single hidden price inside the bracket gives: every probe answered false
C9_Witness ==
    /\ RefineReturned /\ oracle_mode = "any"
    /\ r_queries_made >= 3
    /\ \A i \in 1..Len(calls) : calls[i][4] = FALSE
    /\ refine_result.min_price % WINDOW = 0
    /\ refine_result.bracket_width = WINDOW

(***************************************************************************)
(* check_property_in_price_range.  Strings are sequences of characters.    *)
(***************************************************************************)
\* str.lower() on one character
LowerChar(c) == IF c = "A" THEN "a" ELSE IF c = "B" THEN "b" ELSE c

\* str.lower()
Lower(s) == [i \in 1..Len(s) |-> LowerChar(s[i])]

\* str.strip(): leading and trailing whitespace removed
Strip(s) ==
    LET solid == {i \in 1..Len(s) : s[i] # " "}
    IN IF solid = {} THEN << >>
       ELSE LET first == CHOOSE i \in solid : \A j \in solid : i <= j
                last  == CHOOSE i \in solid : \A j \in solid : j <= i
            IN SubSeq(s, first, last)

\* `.lower().strip()` of lines 51 and 140
Normalize(s) == Strip(Lower(s))

\* Python's `needle in hay` on strings
Contains(needle, hay) ==
    \E i \in 0..(Len(hay) - Len(needle)) : SubSeq(hay, i + 1, i + Len(needle)) = needle

\* `pages_to_check = (max_results + results_per_page - 1) // results_per_page`
pages_to_check(mr) == (mr + results_per_page - 1) \div results_per_page

\* A listing of a page is [shape, text]: where its address sits and the string there.
\*   "location"      listing['location']['address']
\*   "address_dict"  listing['address'] is a dict; text is its 'display', '' when absent
\*   "address_str"   listing['address'] is a string
\*   "none"          the listing has no address at all (address_text stays None)
\* lines 129-139: address_text, and whether `if address_text:` passes
HasAddressText(listing) == listing.shape # "none" /\ listing.text # << >>

\* lines 139-142: the listing makes the call return True
ListingMatchesExact(target_normalized, listing) ==
    /\ HasAddressText(listing)
    /\ target_normalized = Normalize(listing.text)
ListingMatches(target_normalized, listing) ==
    /\ HasAddressText(listing)
    /\ Contains(target_normalized, Normalize(listing.text))

\* lines 128-142: the scan of one page's listings finds a match
PageMatches(target_normalized, listings) ==
    \E i \in 1..Len(listings) : ListingMatches(target_normalized, listings[i])

\* The outcome of one requests.post, [kind, listings]:
\*   "Timeout", "ConnectionError"  requests.exceptions raised by the post
\*   "Exception"                   any other exception raised inside the try block
\*   "Status"                      a response whose status_code is not 200
\*   "JSONDecodeError"             status 200, response.json() fails
\*   "noshape"                     status 200, neither listingSearch nor
\*                                 listingMapMarkerSearch in the body (listings is None)
\*   "ok"                          status 200 with a list of listings (possibly empty)
FaultKinds == {"Timeout", "ConnectionError", "Exception", "Status", "JSONDecodeError"}

\* lines 113, 144, 153, 158, 163: what handles the fault; each handler sleeps and
\* continues with the next page
HandlerNoCatchAll(kind) ==
    CASE kind = "JSONDecodeError" -> "except json.JSONDecodeError"
      [] kind = "Status"          -> "else"
      [] kind = "Timeout"         -> "except Timeout"
      [] kind = "ConnectionError" -> "except ConnectionError"
      [] OTHER                    -> "unhandled"
Handler(kind) ==
    CASE kind = "JSONDecodeError" -> "except json.JSONDecodeError"
      [] kind = "Status"          -> "else"
      [] kind = "Timeout"         -> "except Timeout"
      [] kind = "ConnectionError" -> "except ConnectionError"
      [] OTHER                    -> "except Exception"

L_location == [shape |-> "location",     text |-> <<"b", "A", "B", " ">>]
L_dict     == [shape |-> "address_dict", text |-> <<"A", "b">>]
L_plain    == [shape |-> "address_str",  text |-> <<"b", "b">>]
L_blank    == [shape |-> "address_str",  text |-> <<" ">>]
L_empty    == [shape |-> "address_dict", text |-> << >>]
L_none     == [shape |-> "none",         text |-> << >>]

PageContents ==
    { << >>, <<L_none>>, <<L_empty>>, <<L_blank>>, <<L_plain>>,
      <<L_plain, L_location>>, <<L_dict, L_plain>> }

Outcomes ==
    {[kind |-> k, listings |-> << >>] : k \in FaultKinds \cup {"noshape"}}
    \cup {[kind |-> "ok", listings |-> ls] : ls \in PageContents}

Targets == { <<"a", "B">>, <<" ", "B", "b", " ">>, <<"a", "a">>, <<" ">> }

MaxResultsValues == {0} \cup {results_per_page * k - d : k \in 1..MaxPages, d \in {0, 24}}

\* lines 55-56, 107-108: the request of one loop iteration
Post(o) ==
    /\ requests' = Append(requests, page * results_per_page)
    /\ fetched' = Append(fetched, o)

\* lines 110-117, 144-148, 153-167: the page fails and is skipped
PageFault ==
    /\ pc = "page"
    /\ page < pages_to_check(max_results)
    /\ \E o \in Outcomes :
          /\ o.kind \in FaultKinds
          /\ Post(o)
          /\ IF Handler(o.kind) = "unhandled"
             THEN pc' = "raised" /\ UNCHANGED page
             ELSE pc' = pc /\ page' = page + 1
    /\ UNCHANGED <<target_address, max_results, c_result, oracle_mode, prices, calls>>
    /\ UNCHANGED searchVars
    /\ UNCHANGED refineVars
    /\ UNCHANGED batchVars

\* lines 119-126, 169: no listings in the page: break, return False
PageNoListings ==
    /\ pc = "page"
    /\ page < pages_to_check(max_results)
    /\ \E o \in Outcomes :
          /\ o.kind = "noshape" \/ (o.kind = "ok" /\ Len(o.listings) = 0)
          /\ Post(o)
    /\ pc' = "returned"
    /\ c_result' = FALSE
    /\ UNCHANGED <<target_address, max_results, page, oracle_mode, prices, calls>>
    /\ UNCHANGED searchVars
    /\ UNCHANGED refineVars
    /\ UNCHANGED batchVars

\* lines 128-142, 150-151: the listings are scanned; a match returns True, otherwise
\* the loop goes on with the next page
PageScan ==
    /\ pc = "page"
    /\ page < pages_to_check(max_results)
    /\ \E o \in Outcomes :
          /\ o.kind = "ok" /\ Len(o.listings) > 0
          /\ Post(o)
          /\ IF PageMatches(Normalize(target_address), o.listings)
             THEN pc' = "returned" /\ c_result' = TRUE /\ UNCHANGED page
             ELSE pc' = pc /\ page' = page + 1 /\ UNCHANGED c_result
    /\ UNCHANGED <<target_address, max_results, oracle_mode, prices, calls>>
    /\ UNCHANGED searchVars
    /\ UNCHANGED refineVars
    /\ UNCHANGED batchVars

\* lines 55, 169: the pages are exhausted: return False
PagesExhausted ==
    /\ pc = "page"
    /\ ~(page < pages_to_check(max_results))
    /\ pc' = "returned"
    /\ c_result' = FALSE
    /\ UNCHANGED <<target_address, max_results, page, requests, fetched,
                   oracle_mode, prices, calls>>
    /\ UNCHANGED searchVars
    /\ UNCHANGED refineVars
    /\ UNCHANGED batchVars

InitCheck ==
    /\ pc = "page"
    /\ target_address \in Targets
    /\ max_results \in MaxResultsValues
    /\ page = 0
    /\ requests = << >>
    /\ fetched = << >>
    /\ c_result = None
    /\ oracle_mode = "listings"
    /\ prices = {}
    /\ calls = << >>
    /\ price_points = PRICE_POINTS
    /\ find_exact = FALSE
    /\ lo = 0
    /\ hi = 0
    /\ lower_bound_index = 0
    /\ upper_bound_index = 0
    /\ queries_made = 0
    /\ result = Pending
    /\ NoRefine
    /\ NoBatch

NextCheck ==
    \/ PageFault
    \/ PageNoListings
    \/ PageScan
    \/ PagesExhausted

SpecCheck == InitCheck /\ [][NextCheck]_vars

(***************************************************************************)
(* Properties of check_property_in_price_range (checked under SpecCheck)   *)
(***************************************************************************)
\* ceil(mr / 25): the least n with 25 * n >= mr
CeilPages(mr) == CHOOSE n \in 0..(mr + 1) : 25 * n >= mr /\ \A m \in 0..(mr + 1) : 25 * m >= mr => n <= m

\* the page was fetched successfully
Successful(o) == o.kind \in {"ok", "noshape"}
\* a successfully fetched page with zero listings
ZeroListings(o) == Successful(o) /\ Len(o.listings) = 0

\* the listing has an address whose lower-cased, trimmed form contains the lower-cased,
\* trimmed target as a substring
AddressContainsTarget(listing) ==
    /\ listing.shape # "none"
    /\ Contains(Strip(Lower(target_address)), Strip(Lower(listing.text)))

\* the same, for a listing whose address text is not empty
TextContainsTarget(listing) ==
    /\ listing.shape # "none"
    /\ listing.text # << >>
    /\ Contains(Strip(Lower(target_address)), Strip(Lower(listing.text)))

\* page i (1-based) of the log qualifies: fetched successfully, within the first
\* ceil(max_results/25) pages, before any successfully fetched page with zero listings,
\* and holding a listing that satisfies M
Qualifies(i, M(_)) ==
    /\ i <= CeilPages(max_results)
    /\ fetched[i].kind = "ok"
    /\ \E k \in 1..Len(fetched[i].listings) : M(fetched[i].listings[k])
    /\ \A j \in 1..(i - 1) : ~ZeroListings(fetched[j])

\* pages are requested in order 0, 1, 2, ...: request i carries skip = 25 * (i - 1)
InOrder == \A i \in 1..Len(requests) : requests[i] = 25 * (i - 1)

CheckReturned == pc = "returned"

\* C6 as stated: the call returns true exactly when some qualifying page holds a listing
\* whose normalised address contains the normalised target; it returns at the first such
\* page without requesting later pages; it returns false in every other case.
C6_Original ==
    /\ InOrder /\ Len(fetched) = Len(requests)
    /\ CheckReturned =>
          /\ c_result \in BOOLEAN
          /\ c_result = TRUE <=>
                \E i \in 1..Len(fetched) : Qualifies(i, AddressContainsTarget)
          /\ c_result = TRUE =>
                /\ Qualifies(Len(fetched), AddressContainsTarget)
                /\ \A i \in 1..(Len(fetched) - 1) : ~Qualifies(i, AddressContainsTarget)

\* C6 amended: the same with "a listing whose address text is not empty and whose
\* normalised address contains the normalised target".
C6_Match ==
    /\ InOrder /\ Len(fetched) = Len(requests)
    /\ CheckReturned =>
          /\ c_result \in BOOLEAN
          /\ c_result = TRUE <=>
                \E i \in 1..Len(fetched) : Qualifies(i, TextContainsTarget)
          /\ c_result = TRUE =>
                /\ Qualifies(Len(fetched), TextContainsTarget)
                /\ \A i \in 1..(Len(fetched) - 1) : ~Qualifies(i, TextContainsTarget)

\* a match on the second page, by substring and only after lower-casing and trimming,
\* with a third page available and not requested
C6_Witness ==
    /\ CheckReturned /\ c_result = TRUE
    /\ target_address = <<"a", "B">>
    /\ pages_to_check(max_results) = 3
    /\ requests = <<0, 25>>
    /\ fetched[1] = [kind |-> "ok", listings |-> <<L_plain>>]
    /\ fetched[2] = [kind |-> "ok", listings |-> <<L_plain, L_location>>]

\* C7: whatever the per-page outcomes, the call never raises, requests each page offset
\* at most once and in order (a failed page is skipped, not retried), issues at most
\* ceil(max_results/25) requests, and returns true if a successfully fetched page holds
\* a match, also after failed pages.
C7_FaultsSkipped ==
    /\ pc # "raised"
    /\ InOrder
    /\ \A i \in 1..Len(requests), j \in 1..Len(requests) : i # j => requests[i] # requests[j]
    /\ Len(requests) <= CeilPages(max_results)
    /\ Len(fetched) = Len(requests)
    /\ (pc = "page") => page = Len(requests)
    /\ CheckReturned =>
          ((\E i \in 1..Len(fetched) :
               /\ fetched[i].kind = "ok"
               /\ \E k \in 1..Len(fetched[i].listings) :
                     TextContainsTarget(fetched[i].listings[k]))
            => c_result = TRUE)

\* every kind of fault once, then a page with a match
C7_Witness ==
    /\ CheckReturned /\ c_result = TRUE
    /\ Len(fetched) >= 3
    /\ \A i \in 1..(Len(fetched) - 1) : fetched[i].kind \in FaultKinds
    /\ \E i \in 1..Len(fetched) : fetched[i].kind = "Exception"
    /\ \E i \in 1..Len(fetched) : fetched[i].kind = "Timeout"
    /\ fetched[Len(fetched)].kind = "ok"

(***************************************************************************)
(* main: the batch loop over the rows of the uploaded CSV and the summary  *)
(* statistics.  Each row is [address, prices]: its address column and, for *)
(* the deterministic oracle, the sold prices of the listings matching it.  *)
(***************************************************************************)
Addresses == {"79 Gerrale Street Cronulla", "123 Main Street Sydney"}

\* no matching listing, one inside the ladder span (between two ladder values, on the
\* first ladder value), two, and one above the span
RowPrices == {{}, {1150000}, {200000}, {500000, 2000000}, {10050000}}

RowKinds == [address : Addresses, prices : RowPrices]

BatchInputs == UNION {[1..n -> RowKinds] : n \in 0..MaxRows}

\* dict.get(key, default)
Get(r, key, default) == IF key \in DOMAIN r THEN r[key] ELSE default

RECURSIVE found_count(_)
\* `sum(1 for r in results if r.get('found'))`
found_count(rs) ==
    IF rs = << >> THEN 0
    ELSE (IF Get(Head(rs), "found", FALSE) = TRUE THEN 1 ELSE 0) + found_count(Tail(rs))

RECURSIVE total_queries(_)
\* `sum(r.get('queries_made', 0) for r in results)`
total_queries(rs) ==
    IF rs = << >> THEN 0
    ELSE Get(Head(rs), "queries_made", 0) + total_queries(Tail(rs))

\* `total_queries / len(results) if results else 0`, as <<numerator, denominator>>
avg_queries(rs) == IF Len(rs) > 0 THEN <<total_queries(rs), Len(rs)>> ELSE <<0, 1>>

\* lines 512-532: the loop takes the next row and calls binary_search_price_range
\* (lines 234-236: its entry)
BatchCall ==
    /\ pc = "batch_loop"
    /\ row_idx < Len(rows)
    /\ LET row == rows[row_idx + 1]
       IN /\ b_address' = row.address
          /\ prices' = row.prices
          /\ invocations' = Append(invocations, row.address)
    /\ pc' = "exists"
    /\ lo' = 0
    /\ hi' = 0
    /\ lower_bound_index' = 0
    /\ upper_bound_index' = 0
    /\ queries_made' = 0
    /\ result' = Pending
    /\ r_min_price' = 0
    /\ r_max_price' = 0
    /\ r_lo' = 0
    /\ r_hi' = 0
    /\ r_queries_made' = 0
    /\ refine_result' = Pending
    /\ UNCHANGED <<price_points, find_exact, oracle_mode, calls,
                   rows, row_idx, results, summary>>
    /\ UNCHANGED checkVars

\* lines 534-538: results.append(result), and the loop goes on whatever the result
BatchAppendStopOnNotFound ==
    /\ pc = "done"
    /\ results' = Append(results, result)
    /\ row_idx' = IF result.found THEN row_idx + 1 ELSE Len(rows)
    /\ pc' = "batch_loop"
    /\ UNCHANGED <<b_address, rows, invocations, summary, oracle_mode, prices, calls>>
    /\ UNCHANGED searchVars
    /\ UNCHANGED refineVars
    /\ UNCHANGED checkVars

BatchAppend ==
    /\ pc = "done"
    /\ results' = Append(results, result)
    /\ row_idx' = row_idx + 1
    /\ pc' = "batch_loop"
    /\ UNCHANGED <<b_address, rows, invocations, summary, oracle_mode, prices, calls>>
    /\ UNCHANGED searchVars
    /\ UNCHANGED refineVars
    /\ UNCHANGED checkVars

\* lines 512, 540 and 571-582: the loop ends, the statistics are computed
BatchSummary ==
    /\ pc = "batch_loop"
    /\ ~(row_idx < Len(rows))
    /\ summary' = [found_count   |-> found_count(results),
                   total_results |-> Len(results),
                   total_queries |-> total_queries(results),
                   avg_queries   |-> avg_queries(results)]
    /\ pc' = "batch_done"
    /\ UNCHANGED <<b_address, rows, row_idx, results, invocations,
                   oracle_mode, prices, calls>>
    /\ UNCHANGED searchVars
    /\ UNCHANGED refineVars
    /\ UNCHANGED checkVars

InitBatch ==
    /\ pc = "batch_loop"
    /\ rows \in BatchInputs
    /\ row_idx = 0
    /\ results = << >>
    /\ invocations = << >>
    /\ summary = Pending
    /\ b_address = "target_address"
    /\ price_points = PRICE_POINTS
    /\ find_exact \in BOOLEAN
    /\ oracle_mode = "listings"
    /\ prices = {}
    /\ lo = 0
    /\ hi = 0
    /\ lower_bound_index = 0
    /\ upper_bound_index = 0
    /\ queries_made = 0
    /\ result = Pending
    /\ calls = << >>
    /\ NoRefine
    /\ NoCheck

NextBatch ==
    \/ BatchCall
    \/ ExistsCheck
    \/ LowerStep
    \/ LowerExit
    \/ UpperStep
    \/ UpperExit
    \/ RefineStep
    \/ RefineReturn
    \/ ExactReturn
    \/ BatchAppend
    \/ BatchSummary

SpecBatch == InitBatch /\ [][NextBatch]_vars

(***************************************************************************)
(* Properties of the batch loop (checked under SpecBatch)                  *)
(***************************************************************************)
BatchDone == pc = "batch_done"

\* the deterministic oracle confirms the row's property over the default ladder span
RowExists(row) ==
    \E q \in row.prices : PRICE_POINTS[1] <= q /\ q <= PRICE_POINTS[Len(PRICE_POINTS)]

\* C11: the batch loop calls binary_search_price_range exactly once per row, in input
\* order, and appends its result: after the loop the result sequence has length N and
\* its i-th result echoes the i-th row's address; a not-found result does not stop the
\* later rows; N = 0 gives an empty sequence and a summary of 0 found / 0 calls, and
\* the loop is never stuck before the summary.
C11_OneResultPerRow ==
    /\ Len(invocations) <= Len(rows)
    /\ \A i \in 1..Len(invocations) : invocations[i] = rows[i].address
    /\ Len(results) <= Len(invocations)
    /\ (pc = "batch_loop") => (Len(results) = row_idx /\ Len(invocations) = row_idx)
    /\ ~BatchDone => ENABLED NextBatch
    /\ BatchDone =>
          /\ Len(invocations) = Len(rows)
          /\ Len(results) = Len(rows)
          /\ \A i \in 1..Len(rows) :
                /\ results[i].address = rows[i].address
                /\ results[i].found = RowExists(rows[i])
          /\ summary.total_results = Len(rows)
          /\ summary.found_count = Cardinality({i \in 1..Len(rows) : RowExists(rows[i])})
          /\ (Len(rows) = 0) =>
                /\ results = << >>
                /\ calls = << >>
                /\ summary.found_count = 0
                /\ summary.total_queries = 0
                /\ summary.avg_queries = <<0, 1>>

\* two rows with different addresses, the first not found, the second found
C11_Witness ==
    /\ BatchDone
    /\ Len(rows) = 2 /\ Len(results) = 2
    /\ rows[1].address # rows[2].address
    /\ results[1].found = FALSE /\ results[1].address = rows[1].address
    /\ results[2].found = TRUE /\ results[2].address = rows[2].address
    /\ summary.found_count = 1

\* C12: after a batch over any mix of found and not-found properties, the summary's
\* total calls (the sum of each result's queries_made, 0 when it has none) equals the
\* number of check_property_in_price_range invocations made during the batch.
C12_TotalIsCallsMade ==
    BatchDone => summary.total_queries = Len(calls)

====
